---- MODULE Spec2Model ----
(***************************************************************************)
(* Logging pipeline of the service template: the winston logger built by   *)
(* createLogger (src/src/utils/index.ts), the morgan access logger and the *)
(* auxiliary middlewares (src/src/middlewares/httpLogger.ts), the process  *)
(* hooks of the entry point (src/unnamed/part_000) and the configuration   *)
(* loader (src/unnamed/part_001, src/config/*.js, src/unnamed/part_002).   *)
(*                                                                         *)
(* Text is a sequence of tokens (strings); every field value of a log      *)
(* record is a Text, so that trimming, prefix tests and concatenation are  *)
(* computed and not assumed.                                               *)
(***************************************************************************)
EXTENDS Integers, Sequences, FiniteSets, TLC

VARIABLES
  env,      \* process.env: NODE_ENV, LOG_LEVEL, ENABLE_CONSOLE_LOGS
  logger,   \* the winston logger returned by createLogger()
  now,      \* wall clock, in milliseconds
  proc,     \* the process: running or exited, and its exit status
  timers,   \* deadlines of the armed setTimeout(process.exit(1)) callbacks
  queue,    \* per file destination: lines accepted and not yet on disk
  disk,     \* per file destination: lines written to the file
  console,  \* lines written to the console
  calls,    \* ordinary log calls made on the logger (level, message, metadata)
  faults,   \* uncaught exceptions and unhandled rejections observed so far
  reqs,     \* HTTP requests seen by the httpLogger middleware
  mw,       \* calls observed by errorLogger / detailedHttpLogger collaborators
  config,   \* the configuration exported by config/index.js
  modules,  \* the configuration files require() can load
  child     \* the child loggers handed out by createChildLogger

vars ==
  <<env, logger, now, proc, timers, queue, disk, console, calls, faults, reqs, mw,
    config, modules, child>>

-----------------------------------------------------------------------------
(* Values *)

\* an environment variable that is not set, a JS property that is undefined
Unset == "<unset>"

\* a one-token text
T(s) == <<s>>

\* the JS value undefined as a field value
Undefined == <<"<undefined>">>

\* winston.config.npm.levels
npmLevels ==
  [error |-> 0, warn |-> 1, info |-> 2, http |-> 3, verbose |-> 4, debug |-> 5, silly |-> 6]

\* the file destinations created by createLogger
Files == {"combined", "error", "exceptions", "rejections"}

\* a || b on strings: the empty string and undefined are falsy
OrDefault(v, d) == IF v \in {Unset, ""} THEN d ELSE v

\* Object.assign({}, a, b)
Assign(a, b) ==
  [k \in (DOMAIN a) \cup (DOMAIN b) |-> IF k \in DOMAIN b THEN b[k] ELSE a[k]]

\* the object without the keys ks (rest destructuring)
Omit(f, ks) == [k \in (DOMAIN f) \ ks |-> f[k]]

\* the empty object {}
EmptyObj == [k \in {} |-> <<>>]

-----------------------------------------------------------------------------
(* Configuration loader *)

\* String.prototype.toLowerCase on the environment names in use
toLowerCase(s) ==
  CASE s = "Production" -> "production"
    [] s = "PRODUCTION" -> "production"
    [] s = "Staging" -> "staging"
    [] s = "Test" -> "test"
    [] OTHER -> s

\* the switch of loadConfig: which file NODE_ENV selects
configFile(nodeEnv) ==
  LET e == toLowerCase(OrDefault(nodeEnv, "development"))
  IN CASE e = "production" -> "./production.js"
       [] e = "staging" -> "./staging.js"
       [] e = "test" -> "./test.js"
       [] OTHER -> "./development.js"

\* config/development.js
developmentConfig(e) ==
  [server |-> [env |-> "development"],
   logging |-> [level |-> OrDefault(e.LOG_LEVEL, "debug"), format |-> "pretty",
                directory |-> "logs", maxSize |-> "20m", maxFiles |-> "14d"]]

\* config/production.js
productionConfig(e) ==
  [server |-> [env |-> "production"],
   logging |-> [level |-> OrDefault(e.LOG_LEVEL, "error"), format |-> "json",
                directory |-> "logs", maxSize |-> "50m", maxFiles |-> "30d"]]

\* config/test.js
testConfig(e) ==
  [server |-> [env |-> "test"],
   logging |-> [level |-> "silent", format |-> "json",
                directory |-> "logs", maxSize |-> "10m", maxFiles |-> "7d"]]

\* config/staging.js, as the logging guide documents it
stagingConfig(e) ==
  [server |-> [env |-> "staging"],
   logging |-> [level |-> "info", format |-> "json",
                directory |-> "logs", maxSize |-> "30m", maxFiles |-> "21d"]]

\* the configuration files of the switch
ConfigModules == {"./development.js", "./production.js", "./staging.js", "./test.js"}

\* a require() that throws
Throws == [thrown |-> "MODULE_NOT_FOUND"]

\* require(file): the exports of a file that loads, an exception otherwise
require(file, e, mods) ==
  IF file \notin mods THEN Throws
  ELSE CASE file = "./production.js" -> productionConfig(e)
         [] file = "./staging.js" -> stagingConfig(e)
         [] file = "./test.js" -> testConfig(e)
         [] OTHER -> developmentConfig(e)

\* mutant: no fallback, the failure of require(configFile) propagates
loadConfigNoFallback(e, mods) == require(configFile(e.NODE_ENV), e, mods)

\* loadConfig(): require(configFile) in try/catch, falling back to
\* require('./development.js'), which is outside the try block
loadConfig(e, mods) ==
  LET loaded == require(configFile(e.NODE_ENV), e, mods)
  IN IF loaded # Throws THEN loaded ELSE require("./development.js", e, mods)

-----------------------------------------------------------------------------
(* createLogger *)

\* the built-in default used when config.logging is missing
defaultLogConfig ==
  [level |-> "info", format |-> "json", directory |-> "logs",
   maxSize |-> "20m", maxFiles |-> "14d"]

\* mutant: the built-in default whatever the configuration holds
logConfigOfDefault(cfg) == defaultLogConfig

\* config.logging || {...}
logConfigOf(cfg) ==
  IF "logging" \in DOMAIN cfg THEN cfg.logging ELSE defaultLogConfig

\* const isDevelopment = process.env.NODE_ENV !== 'production'
isDevelopment(e) == e.NODE_ENV # "production"

\* mutant: the force-enable flag is ignored
consoleEnabledNoFlag(e) == isDevelopment(e)

\* if (isDevelopment || process.env.ENABLE_CONSOLE_LOGS === 'true')
consoleEnabled(e) == isDevelopment(e) \/ e.ENABLE_CONSOLE_LOGS = "true"

\* consoleFormat: pretty when logConfig.format === 'pretty', else json
consoleFormat(logConfig) == IF logConfig.format = "pretty" THEN "pretty" ELSE "json"

\* mutant: the combined file is fixed at info, as its comment reads
combinedLevelInfo(logConfig) == "info"

\* level of the combined DailyRotateFile transport
combinedLevel(logConfig) == logConfig.level

\* level of the error DailyRotateFile transport
errorFileLevel == "error"

\* the transports array and the logger built from it
createLogger(cfg, e) ==
  LET logConfig == logConfigOf(cfg)
      consoleT == [name |-> "console", format |-> consoleFormat(logConfig),
                   level |-> logConfig.level]
      combinedT == [name |-> "combined", format |-> "json",
                    level |-> combinedLevel(logConfig),
                    dirname |-> logConfig.directory,
                    maxSize |-> logConfig.maxSize, maxFiles |-> logConfig.maxFiles]
      errorT == [name |-> "error", format |-> "json", level |-> errorFileLevel,
                 dirname |-> logConfig.directory,
                 maxSize |-> logConfig.maxSize, maxFiles |-> logConfig.maxFiles]
  IN [level |-> logConfig.level,
      transports |-> (IF consoleEnabled(e) THEN <<consoleT>> ELSE <<>>)
                     \o <<combinedT, errorT>>,
      exceptionHandlers |-> {"exceptions"},
      rejectionHandlers |-> {"rejections"},
      exitOnError |-> FALSE]

\* whether the logger has a transport with this name
HasTransport(lg, name) == \E i \in 1..Len(lg.transports) : lg.transports[i].name = name

\* the transport of the logger with this name
TransportOf(lg, name) ==
  lg.transports[CHOOSE i \in 1..Len(lg.transports) : lg.transports[i].name = name]

-----------------------------------------------------------------------------
(* Formats (logform) *)

\* the order in which the keys of an object are written out
KeyOrder ==
  <<"level", "message", "timestamp", "port", "userId", "requestId",
    "error", "stack", "exception", "rejection", "date", "process", "os", "trace",
    "error.message", "error.stack", "error.name", "reason", "promise",
    "request.method", "request.url", "request.headers", "request.query",
    "request.body", "request.ip",
    "method", "url", "headers", "query", "body", "ip", "statusCode", "duration">>

\* JSON.stringify of an object: its members in order, undefined values dropped
Stringify(f) ==
  LET ks == SelectSeq(KeyOrder, LAMBDA k : k \in DOMAIN f /\ f[k] # Undefined)
  IN [i \in 1..Len(ks) |-> <<ks[i], f[ks[i]]>>]

\* JSON.parse of a member list: the last member of a key wins
Parse(members) ==
  [k \in {members[i][1] : i \in 1..Len(members)} |->
     members[CHOOSE i \in 1..Len(members) :
               /\ members[i][1] = k
               /\ \A j \in (i+1)..Len(members) : members[j][1] # k][2]]

\* 'YYYY-MM-DD HH:mm:ss': the clock at one-second precision
FormatTime(t) == T(ToString(t \div 1000))

\* timestamp({ format: 'YYYY-MM-DD HH:mm:ss' }): sets info.timestamp
timestamp(f, t) == Assign(f, [timestamp |-> FormatTime(t)])

\* baseFormat = combine(timestamp(...), errors({ stack: true })); errors() only
\* rewrites records that are Error instances, which no record here is
baseFormat(f, t) == timestamp(f, t)

\* json(): the record as a one-line JSON object
json(f) == [enc |-> "json", head |-> <<>>, members |-> Stringify(f)]

\* colorize(): the level wrapped in colour codes
colorize(f) == Assign(f, [level |-> <<"<color>">> \o f.level \o <<"</color>">>])

\* align(): a tab before the message
align(f) == Assign(f, [message |-> <<"\t">> \o f.message])

\* prettyFormat: `${timestamp} [${level}]: ${message}` and the indented metadata
prettyFormat(f) ==
  LET metadata == Omit(f, {"level", "message", "timestamp"})
  IN [enc |-> "pretty",
      head |-> f.timestamp \o <<" [">> \o f.level \o <<"]: ">> \o f.message,
      members |-> IF DOMAIN metadata # {} THEN Stringify(metadata) ELSE <<>>]

\* the format of a transport, applied to a copy of the record
transportFormat(fmt, f, t) ==
  IF fmt = "pretty" THEN prettyFormat(align(colorize(baseFormat(f, t))))
  ELSE json(baseFormat(f, t))

\* fileFormat = combine(baseFormat, json())
fileFormat(f, t) == json(baseFormat(f, t))

-----------------------------------------------------------------------------
(* winston Logger: log, write, transports *)

\* a field that holds the JS value true
IsTrue(f, k) == k \in DOMAIN f /\ f[k] = T("true")

\* a text that is truthy in JS
Truthy(f, k) == k \in DOMAIN f /\ f[k] # <<>> /\ f[k] # Undefined

\* !level || levels[level] >= levels[infoLevel]; an unknown level compares false
LevelEnabled(level, infoLevel) ==
  \/ level \in {Unset, ""}
  \/ /\ level \in DOMAIN npmLevels
     /\ infoLevel \in DOMAIN npmLevels
     /\ npmLevels[level] >= npmLevels[infoLevel]

\* mutant: metadata is assigned last and overwrites level and message
MakeInfoMetaLast(level, msg, meta) ==
  [LEVEL |-> level, f |-> Assign([level |-> T(level), message |-> msg], meta)]

\* logger.log(level, msg, meta): Object.assign({}, meta, {level, message}), the
\* message of the metadata appended to the message
MakeInfo(level, msg, meta) ==
  LET f == Assign(meta, [level |-> T(level), message |-> msg])
  IN [LEVEL |-> level,
      f |-> IF Truthy(meta, "message")
            THEN [f EXCEPT !["message"] = msg \o <<" ">> \o meta.message]
            ELSE f]

\* a regular transport's _write: exception records are for the handlers only,
\* then the transport's own level (or the logger's) decides
TransportAccepts(tr, lg, info) ==
  /\ ~IsTrue(info.f, "exception")
  /\ LevelEnabled(OrDefault(tr.level, lg.level), info.LEVEL)

\* ExceptionStream / RejectionStream: the handler file takes only its own records
HandlerAccepts(d, lg, info) ==
  \/ d \in lg.exceptionHandlers /\ IsTrue(info.f, "exception")
  \/ d \in lg.rejectionHandlers /\ IsTrue(info.f, "rejection")

\* whether file destination d takes the record
FileAccepts(d, lg, info) ==
  \/ HasTransport(lg, d) /\ TransportAccepts(TransportOf(lg, d), lg, info)
  \/ HandlerAccepts(d, lg, info)

\* the line file destination d writes: its own format for a transport, the
\* logger's default json() output for a handler file (transport.log is called
\* directly)
FileLine(d, lg, info, t) ==
  IF HasTransport(lg, d)
  THEN fileFormat(info.f, t)
  ELSE json(info.f)

\* mutant: a write that finds another one pending takes its place
EnqueueLatest(q, line) == <<line>>

\* the file stream's write(chunk): the line joins the stream's queue whole, behind
\* the lines still to be written
Enqueue(q, line) == Append(q, line)

\* logger.write(info): the logger's level, then every piped destination
Write(s, lg, info, t) ==
  IF ~LevelEnabled(lg.level, info.LEVEL) THEN s
  ELSE [s EXCEPT
          !.queue = [d \in Files |->
                       IF FileAccepts(d, lg, info)
                       THEN Enqueue(s.queue[d], FileLine(d, lg, info, t))
                       ELSE s.queue[d]],
          !.console =
             IF HasTransport(lg, "console")
                /\ TransportAccepts(TransportOf(lg, "console"), lg, info)
             THEN Append(s.console,
                         transportFormat(TransportOf(lg, "console").format, info.f, t))
             ELSE s.console]

\* logger.error / warn / info / http / debug (msg, meta)
Log(s, lg, level, msg, meta, t) ==
  Write([s EXCEPT !.calls = Append(s.calls, [level |-> level, message |-> msg, meta |-> meta])],
        lg, MakeInfo(level, msg, meta), t)

\* the sinks as they are now
Sinks == [queue |-> queue, console |-> console, calls |-> calls]

\* the sinks after the step
SinksBecome(s) == queue' = s.queue /\ console' = s.console /\ calls' = s.calls

-----------------------------------------------------------------------------
(* Process: faults, signals, exit *)

\* setTimeout(() => process.exit(1), 1000)
ExitDelayMs == 1000

\* the clock advances in steps of half the exit delay
TickMs == ExitDelayMs \div 2

\* bounds of the model
MaxTicks == 2
MaxCalls == 2
MaxFaults == 1

\* the severities the code logs at
Severities == {"error", "warn", "info", "http", "debug"}

\* the values of process.env considered
NodeEnvs == {Unset, "production", "Production", "test"}
LogLevelEnvs == {Unset, "info"}
ConsoleFlags == {Unset, "true", "TRUE"}
Envs == [NODE_ENV : NodeEnvs, LOG_LEVEL : LogLevelEnvs, ENABLE_CONSOLE_LOGS : ConsoleFlags]

\* messages of thrown errors
FaultMessages == {"boom"}

\* an Error object with its message, name and captured stack
Err(m) ==
  [message |-> T(m), name |-> T("Error"), stack |-> <<"Error: ", m, "\n    at <anonymous>">>]

\* winston ExceptionHandler.getAllInfo(err)
exceptionInfo(err) ==
  [LEVEL |-> "error",
   f |-> [error |-> T("{}"), level |-> T("error"),
          message |-> <<"uncaughtException: ">> \o err.message \o <<"\n">> \o err.stack,
          stack |-> err.stack, exception |-> T("true"),
          date |-> T("<date>"), process |-> T("<process>"), os |-> T("<os>"),
          trace |-> T("<trace>")]]

\* winston RejectionHandler.getAllInfo(err)
rejectionInfo(err) ==
  [LEVEL |-> "error",
   f |-> [error |-> T("{}"), level |-> T("error"),
          message |-> <<"unhandledRejection: ">> \o err.message \o <<"\n">> \o err.stack,
          stack |-> err.stack, rejection |-> T("true"),
          date |-> T("<date>"), process |-> T("<process>"), os |-> T("<os>"),
          trace |-> T("<trace>")]]

Running == proc.state = "running"

\* process.exit(code) has been called: the process is going down
Exiting(code) == proc' = [state |-> "exiting", code |-> code]

\* the process has ended; what is still queued is never written
Exit(code) == proc' = [state |-> "exited", code |-> code]

\* the state after the modules were loaded: the configuration cfg is exported
\* and the logger is built from it
InitLoaded(e, mods, cfg) ==
  /\ env = e
  /\ modules = mods
  /\ config = cfg
  /\ child = <<>>
  /\ logger = createLogger(cfg, e)
  /\ now = 0
  /\ proc = [state |-> "running", code |-> -1]
  /\ timers = {}
  /\ queue = [d \in Files |-> <<>>]
  /\ disk = [d \in Files |-> <<>>]
  /\ console = <<>>
  /\ calls = <<>>
  /\ faults = <<>>
  /\ reqs = <<>>
  /\ mw = <<>>

\* the state after construction of the logger, every configuration file in place
InitWith(e) == InitLoaded(e, ConfigModules, loadConfig(e, ConfigModules))

\* the environments of the process model: development, production (with and
\* without the console forced on) and test, with and without LOG_LEVEL
ProcessEnvs ==
  {e \in Envs :
     \/ e.NODE_ENV \in {Unset, "production"} /\ e.ENABLE_CONSOLE_LOGS = Unset
     \/ e.NODE_ENV = "production" /\ e.LOG_LEVEL = "info" /\ e.ENABLE_CONSOLE_LOGS = "true"
     \/ e.NODE_ENV = "test" /\ e.LOG_LEVEL = Unset /\ e.ENABLE_CONSOLE_LOGS = Unset}

Init == \E e \in ProcessEnvs : InitWith(e)

\* logger.<level>(msg, meta) called from application code
LogCall(level, msg, meta) ==
  /\ Running
  /\ Len(calls) < MaxCalls
  /\ SinksBecome(Log(Sinks, logger, level, msg, meta, now))
  /\ UNCHANGED <<env, logger, now, proc, timers, disk, faults, reqs, mw, config, modules, child>>

\* an uncaught exception: winston's handler logs the exception record
\* (exitOnError is false, so winston does not exit), then the handler of the
\* entry point logs the error and arms the exit timer
UncaughtException(m) ==
  /\ Running
  /\ Len(calls) < MaxCalls
  /\ Len(faults) < MaxFaults
  /\ LET err == Err(m)
         s1 == Write(Sinks, logger, exceptionInfo(err), now)
         s2 == Log(s1, logger, "error", T("Uncaught Exception"),
                   ("error.message" :> err.message) @@ ("error.stack" :> err.stack)
                     @@ ("error.name" :> err.name), now)
     IN SinksBecome(s2)
  /\ timers' = timers \cup {now + ExitDelayMs}
  /\ faults' = Append(faults, [kind |-> "exception", message |-> m, at |-> now])
  /\ UNCHANGED <<env, logger, now, proc, disk, reqs, mw, config, modules, child>>

\* an unhandled rejection: winston's handler logs the rejection record, then the
\* handler of the entry point logs reason and promise; nothing exits
UnhandledRejection(m) ==
  /\ Running
  /\ Len(calls) < MaxCalls
  /\ Len(faults) < MaxFaults
  /\ LET err == Err(m)
         s1 == Write(Sinks, logger, rejectionInfo(err), now)
         s2 == Log(s1, logger, "error", T("Unhandled Rejection"),
                   [reason |-> <<"Error: ", m>>, promise |-> T("[object Promise]")], now)
     IN SinksBecome(s2)
  /\ faults' = Append(faults, [kind |-> "rejection", message |-> m, at |-> now])
  /\ UNCHANGED <<env, logger, now, proc, timers, disk, reqs, mw, config, modules, child>>

\* SIGTERM / SIGINT: one info record, then process.exit(0) at once; the writes
\* just handed to the file streams race with the exit
Signal(sig) ==
  /\ Running
  /\ Len(calls) < MaxCalls
  /\ SinksBecome(Log(Sinks, logger, "info",
                     <<sig, " signal received: closing application gracefully">>,
                     EmptyObj, now))
  /\ Exiting(0)
  /\ UNCHANGED <<env, logger, now, timers, disk, faults, reqs, mw, config, modules, child>>

\* the process that called process.exit is gone
ProcessExit ==
  /\ proc.state = "exiting"
  /\ Exit(proc.code)
  /\ UNCHANGED <<env, logger, now, timers, queue, disk, console, calls, faults, reqs, mw, config, modules, child>>

\* mutant: the timer callback exits with status 0
TimeoutExit0 ==
  /\ Running
  /\ \E d \in timers : now >= d
  /\ Exit(0)
  /\ UNCHANGED <<env, logger, now, timers, queue, disk, console, calls, faults, reqs, mw,
                 config, modules, child>>

\* the exit timer armed by the uncaughtException handler fires
Timeout ==
  /\ Running
  /\ \E d \in timers : now >= d
  /\ Exit(1)
  /\ UNCHANGED <<env, logger, now, timers, queue, disk, console, calls, faults, reqs, mw, config, modules, child>>

\* a queued line reaches its file
Flush(d) ==
  /\ proc.state # "exited"
  /\ queue[d] # <<>>
  /\ disk' = [disk EXCEPT ![d] = Append(@, Head(queue[d]))]
  /\ queue' = [queue EXCEPT ![d] = Tail(@)]
  /\ UNCHANGED <<env, logger, now, proc, timers, console, calls, faults, reqs, mw, config, modules, child>>

\* time passes, up to the bound and on to the deadline of an armed timer; a due
\* timer fires before the clock moves on, and a queued write completes well
\* within one tick
Tick ==
  /\ Running
  /\ now < MaxTicks * TickMs \/ \E d \in timers : now < d
  /\ \A d \in timers : now < d
  /\ \A d \in Files : queue[d] = <<>>
  /\ now' = now + TickMs
  /\ UNCHANGED <<env, logger, proc, timers, queue, disk, console, calls, faults, reqs, mw, config, modules, child>>

Next ==
  \/ \E level \in Severities : LogCall(level, T("Server started"), EmptyObj)
  \/ \E m \in FaultMessages : UncaughtException(m)
  \/ \E m \in FaultMessages : UnhandledRejection(m)
  \/ \E sig \in {"SIGTERM", "SIGINT"} : Signal(sig)
  \/ ProcessExit
  \/ Timeout
  \/ \E d \in Files : Flush(d)
  \/ Tick

Spec == Init /\ [][Next]_vars

\* development and production, at their default levels
ExitEnvs ==
  {e \in Envs : /\ e.NODE_ENV \in {Unset, "production"}
                /\ e.LOG_LEVEL = Unset
                /\ e.ENABLE_CONSOLE_LOGS = Unset}

InitExit == \E e \in ExitEnvs : InitWith(e)

NextExit ==
  \/ \E m \in FaultMessages : UncaughtException(m)
  \/ \E m \in FaultMessages : UnhandledRejection(m)
  \/ \E sig \in {"SIGTERM", "SIGINT"} : Signal(sig)
  \/ ProcessExit
  \/ Timeout
  \/ \E d \in Files : Flush(d)
  \/ Tick

\* faults, signals and the exit timer; the event loop keeps running: the clock
\* advances, due timers fire, queued writes complete and process.exit ends the
\* process
SpecExit ==
  /\ InitExit /\ [][NextExit]_vars
  /\ WF_vars(Tick) /\ WF_vars(Timeout) /\ WF_vars(ProcessExit)
  /\ \A d \in Files : WF_vars(Flush(d))

\* errors a write to a destination fails with after startup
WriteErrors == {"ENOSPC", "EACCES"}

\* a queued write to file destination d fails: the line is lost and the stream
\* emits 'error', which the transport and the logger pass on; createLogger
\* attaches no 'error' listener to either, so the event is thrown from the I/O
\* callback and arrives at the process as an uncaught exception
WriteFails(d, code) ==
  /\ Running
  /\ queue[d] # <<>>
  /\ Len(calls) < MaxCalls
  /\ Len(faults) < MaxFaults
  /\ LET err == Err(code)
         s0 == [Sinks EXCEPT !.queue[d] = Tail(@)]
         s1 == Write(s0, logger, exceptionInfo(err), now)
         s2 == Log(s1, logger, "error", T("Uncaught Exception"),
                   ("error.message" :> err.message) @@ ("error.stack" :> err.stack)
                     @@ ("error.name" :> err.name), now)
     IN SinksBecome(s2)
  /\ timers' = timers \cup {now + ExitDelayMs}
  /\ faults' = Append(faults, [kind |-> "exception", message |-> code, at |-> now])
  /\ mw' = Append(mw, [ev |-> "writeError", dest |-> d, code |-> code])
  /\ UNCHANGED <<env, logger, now, proc, disk, reqs, config, modules, child>>

\* development and production, at their default levels
FailEnvs ==
  {e \in Envs : /\ e.NODE_ENV \in {Unset, "production"}
                /\ e.LOG_LEVEL = Unset
                /\ e.ENABLE_CONSOLE_LOGS = Unset}

InitFail == \E e \in FailEnvs : InitWith(e)

NextFail ==
  \/ \E level \in Severities : LogCall(level, T("Server started"), EmptyObj)
  \/ \E d \in Files, code \in WriteErrors : WriteFails(d, code)
  \/ Timeout
  \/ \E d \in Files : Flush(d)
  \/ Tick

\* log calls whose writes can fail
SpecFail == InitFail /\ [][NextFail]_vars

\* configurations handed to createLogger: one without a logging section, the
\* three files of config/ and one with settings of its own
ConfigInputs(e) ==
  {[server |-> [port |-> 3000, host |-> "localhost", env |-> "development"]],
   developmentConfig(e), productionConfig(e), testConfig(e),
   [logging |-> [level |-> "warn", format |-> "pretty", directory |-> "/var/log/app",
                 maxSize |-> "1m", maxFiles |-> "3d"]]}

\* development, and production with the console forced on
DefaultEnvs ==
  {e \in Envs : /\ e.LOG_LEVEL = Unset
                /\ \/ e.NODE_ENV = Unset /\ e.ENABLE_CONSOLE_LOGS = Unset
                   \/ e.NODE_ENV = "production" /\ e.ENABLE_CONSOLE_LOGS = "true"}

InitDefault ==
  \E e \in DefaultEnvs : \E cfg \in ConfigInputs(e) : InitLoaded(e, ConfigModules, cfg)

NextDefault ==
  \/ \E level \in Severities : LogCall(level, T("Server started"), EmptyObj)
  \/ \E d \in Files : Flush(d)

\* createLogger on configurations with and without a logging section
SpecDefault == InitDefault /\ [][NextDefault]_vars

\* values of NODE_ENV at module load
LoadNodeEnvs ==
  {Unset, "development", "production", "Production", "staging", "Staging", "test",
   "Test", "qa"}

\* the environments of the loader model
LoadEnvs ==
  [NODE_ENV : LoadNodeEnvs, LOG_LEVEL : {Unset}, ENABLE_CONSOLE_LOGS : {Unset}]

\* which configuration files can be loaded: all of them, or all but one
LoadableSets == {ConfigModules} \cup {ConfigModules \ {f} : f \in ConfigModules}

\* no logger: the module that builds it never finished loading
NoLogger ==
  [level |-> Unset, transports |-> <<>>, exceptionHandlers |-> {},
   rejectionHandlers |-> {}, exitOnError |-> FALSE]

\* loadConfig() threw while config/index.js was loading: the process ends at
\* startup, before any logger or hook exists
InitFailed(e, mods) ==
  /\ env = e
  /\ modules = mods
  /\ config = Throws
  /\ child = <<>>
  /\ logger = NoLogger
  /\ now = 0
  /\ proc = [state |-> "exited", code |-> 1]
  /\ timers = {}
  /\ queue = [d \in Files |-> <<>>]
  /\ disk = [d \in Files |-> <<>>]
  /\ console = <<>>
  /\ calls = <<>>
  /\ faults = <<>>
  /\ reqs = <<>>
  /\ mw = <<>>

\* module.exports = loadConfig(), run once when config/index.js is first required
InitLoad ==
  \E e \in LoadEnvs, mods \in LoadableSets :
    LET cfg == loadConfig(e, mods)
    IN IF cfg = Throws THEN InitFailed(e, mods) ELSE InitLoaded(e, mods, cfg)

NextLoad ==
  \/ \E level \in Severities : LogCall(level, T("Server started"), EmptyObj)
  \/ \E d \in Files : Flush(d)

\* the loader, then a running logger
SpecLoad == InitLoad /\ [][NextLoad]_vars

\* every environment, with log calls only: the destinations createLogger builds
InitConsole == \E e \in Envs : InitWith(e)

NextConsole ==
  \/ \E level \in Severities : LogCall(level, T("Server started"), EmptyObj)
  \/ \E d \in Files : Flush(d)
  \/ Tick

SpecConsole == InitConsole /\ [][NextConsole]_vars

-----------------------------------------------------------------------------
(* HTTP access logger (morgan) and error middleware *)

\* s.startsWith(p)
StartsWith(s, p) == Len(s) >= Len(p) /\ SubSeq(s, 1, Len(p)) = p

\* s.includes(p)
Includes(s, p) == \E i \in 1..(Len(s) - Len(p) + 1) : SubSeq(s, i, i + Len(p) - 1) = p

\* URLs, character by character
UrlHealth == <<"/", "h", "e", "a", "l", "t", "h">>
UrlApiHealth == <<"/", "a", "p", "i">> \o UrlHealth
UrlApiUsers == <<"/", "a", "p", "i", "/", "u", "s", "e", "r", "s">>
UrlMetrics == <<"/", "m", "e", "t", "r", "i", "c", "s">>
UrlFavicon == <<"/", "f", "a", "v", "i", "c", "o", "n", ".", "i", "c", "o">>
Urls == {UrlHealth, UrlApiHealth, UrlApiUsers}
Statuses == {200, 500}

\* const skipRoutes = ['/health', '/metrics', '/favicon.ico']
skipRoutes == {UrlHealth, UrlMetrics, UrlFavicon}

\* mutant: a route of the skip list must match the whole URL
shouldSkipLogExact(url, statusCode) ==
  IF url \in skipRoutes THEN TRUE
  ELSE IF Includes(url, SubSeq(UrlHealth, 2, 7)) /\ statusCode = 200 THEN TRUE
  ELSE FALSE

\* mutant: only the 'successful health check' rule, no skip list
shouldSkipLogNoList(url, statusCode) ==
  Includes(url, SubSeq(UrlHealth, 2, 7)) /\ statusCode = 200

\* shouldSkipLog(req, res)
shouldSkipLog(url, statusCode) ==
  IF \E route \in skipRoutes : StartsWith(url, route) THEN TRUE
  ELSE IF Includes(url, SubSeq(UrlHealth, 2, 7)) /\ statusCode = 200 THEN TRUE
  ELSE FALSE

\* mutant: morgan logs when the request arrives
immediateOn == TRUE

\* morgan's immediate option, which httpLogger does not set
immediate == FALSE

\* whitespace tokens
IsSpace(tok) == tok \in {" ", "\n", "\t", "\r"}

RECURSIVE TrimStart(_)
TrimStart(text) ==
  IF text # <<>> /\ IsSpace(Head(text)) THEN TrimStart(Tail(text)) ELSE text

RECURSIVE TrimEnd(_)
TrimEnd(text) ==
  IF text # <<>> /\ IsSpace(text[Len(text)])
  THEN TrimEnd(SubSeq(text, 1, Len(text) - 1)) ELSE text

\* mutant: only the end of the string is trimmed
TrimEndOnly(text) == TrimEnd(text)

\* String.prototype.trim
Trim(text) == TrimEnd(TrimStart(text))

\* mutant: access lines are logged at info
logStreamWriteInfo(s, lg, message, t) == Log(s, lg, "info", Trim(message), EmptyObj, t)

\* logStream.write(message): logger.http(message.trim())
logStreamWrite(s, lg, message, t) == Log(s, lg, "http", Trim(message), EmptyObj, t)

\* a morgan token value, '-' when undefined
Tok(v) == IF v = Undefined THEN T("-") ELSE v

\* morgan.token('real-ip'): req.ip || req.socket.remoteAddress || 'unknown'
realIp(req) ==
  IF req.ip \notin {Undefined, <<>>} THEN req.ip
  ELSE IF req.remoteAddress \notin {Undefined, <<>>} THEN req.remoteAddress
  ELSE T("unknown")

\* morgan.token('request-id'): req.id || '-'
requestId(req) == IF req.id \notin {Undefined, <<>>} THEN req.id ELSE T("-")

\* morgan.token('user-id'): req.user?.id || '-'
userId(req) == IF req.userId \notin {Undefined, <<>>} THEN req.userId ELSE T("-")

\* :status, defined once the headers were sent
statusToken(req) == IF req.headersSent THEN T(ToString(req.statusCode)) ELSE Undefined

\* :response-time, from arrival to the response headers, three digits
responseTimeToken(req) ==
  IF req.headersSent THEN <<ToString(req.headersAt - req.startAt), ".000">> ELSE Undefined

\* devFormat
devFormat(req) ==
  req.method \o T(" ") \o req.url \o T(" ") \o Tok(statusToken(req)) \o T(" ")
    \o Tok(responseTimeToken(req)) \o T(" ms - ") \o Tok(req.contentLength)
    \o T(" ") \o realIp(req)

\* prodFormat: the JSON.stringify'd template with its tokens replaced
prodFormat(req, t) ==
  T("{\"method\":\"") \o req.method
    \o T("\",\"url\":\"") \o req.url
    \o T("\",\"status\":\"") \o Tok(statusToken(req))
    \o T("\",\"responseTime\":\"") \o Tok(responseTimeToken(req)) \o T(" ms")
    \o T("\",\"contentLength\":\"") \o Tok(req.contentLength)
    \o T("\",\"ip\":\"") \o realIp(req)
    \o T("\",\"userAgent\":\"") \o Tok(req.userAgent)
    \o T("\",\"requestId\":\"") \o requestId(req)
    \o T("\",\"userId\":\"") \o userId(req)
    \o T("\",\"timestamp\":\"") \o <<ToString(t), "ms-iso">> \o T("\"}")

\* mutant: the development format whatever the environment
formatLineDev(e, req, t) == devFormat(req)

\* process.env.NODE_ENV === 'production' ? prodFormat : devFormat
formatLine(e, req, t) == IF e.NODE_ENV = "production" THEN prodFormat(req, t) ELSE devFormat(req)

\* morgan's logRequest: skip, else stream.write(line + '\n'); the sinks after it
logRequest(s, lg, e, req, t) ==
  IF shouldSkipLog(req.url, req.statusCode) THEN s
  ELSE logStreamWrite(s, lg, formatLine(e, req, t) \o T("\n"), t)

\* bounds of the HTTP model
MaxReqs == 2

\* an incoming request as express hands it to the middleware chain
NewRequest(url, t) ==
  [method |-> T("GET"), url |-> url, ip |-> T("192.168.1.1"),
   remoteAddress |-> T("10.0.0.1"), id |-> Undefined, userId |-> Undefined,
   userAgent |-> T("curl/8"), headers |-> T("{\"host\":\"localhost\"}"),
   query |-> T("{}"), body |-> Undefined, contentLength |-> Undefined,
   statusCode |-> 200, headersSent |-> FALSE, startAt |-> t, headersAt |-> 0,
   phase |-> "pending", writes |-> 0]

\* httpLogger(req, res, next): morgan notes the start time, registers
\* logRequest with on-finished (or logs at once when immediate) and calls next
Arrive(url) ==
  /\ Running
  /\ Len(reqs) < MaxReqs
  /\ Len(calls) < MaxCalls
  /\ LET req == NewRequest(url, now)
         s == logRequest(Sinks, logger, env, req, now)
     IN IF immediate
        THEN /\ SinksBecome(s)
             /\ reqs' = Append(reqs, [req EXCEPT !.writes = Len(s.calls) - Len(calls)])
        ELSE /\ UNCHANGED <<queue, console, calls>>
             /\ reqs' = Append(reqs, req)
  /\ UNCHANGED <<env, logger, now, proc, timers, disk, faults, mw, config, modules, child>>

\* a handler sets res.statusCode without sending anything yet
SetStatus(r, status) ==
  /\ Running
  /\ r \in 1..Len(reqs)
  /\ reqs[r].phase = "pending"
  /\ reqs[r].statusCode # status
  /\ reqs' = [reqs EXCEPT ![r].statusCode = status]
  /\ UNCHANGED <<env, logger, now, proc, timers, queue, disk, console, calls, faults, mw, config, modules, child>>

\* on-finished fires once for the response, on 'finish' or when the socket
\* closes; unless immediate, morgan's logRequest runs then
Finished(r, req) ==
  /\ IF immediate
     THEN /\ UNCHANGED <<queue, console, calls>>
          /\ reqs' = [reqs EXCEPT ![r] = req]
     ELSE LET s == logRequest(Sinks, logger, env, req, now)
          IN /\ SinksBecome(s)
             /\ reqs' = [reqs EXCEPT ![r] =
                          [req EXCEPT !.writes = @ + Len(s.calls) - Len(calls)]]

\* the handler sends the response and it completes
Respond(r) ==
  /\ Running
  /\ r \in 1..Len(reqs)
  /\ reqs[r].phase = "pending"
  /\ Len(calls) < MaxCalls
  /\ Finished(r, [reqs[r] EXCEPT !.phase = "finished", !.headersSent = TRUE,
                                 !.headersAt = now, !.contentLength = T("1234")])
  /\ UNCHANGED <<env, logger, now, proc, timers, disk, faults, mw, config, modules, child>>

\* the client goes away before the response was started
Abort(r) ==
  /\ Running
  /\ r \in 1..Len(reqs)
  /\ reqs[r].phase = "pending"
  /\ Len(calls) < MaxCalls
  /\ Finished(r, [reqs[r] EXCEPT !.phase = "aborted"])
  /\ UNCHANGED <<env, logger, now, proc, timers, disk, faults, mw, config, modules, child>>

\* the metadata errorLogger logs: the error and the originating request
errorLoggerMeta(err, req) ==
  ("error.message" :> err.message) @@ ("error.stack" :> err.stack)
    @@ ("error.name" :> err.name)
    @@ ("request.method" :> req.method) @@ ("request.url" :> req.url)
    @@ ("request.headers" :> req.headers) @@ ("request.query" :> req.query)
    @@ ("request.body" :> req.body) @@ ("request.ip" :> req.ip)

\* mutant: the error is swallowed, next() is called with a fresh error
errorLoggerStepsSwallow(err, r, n) ==
  <<[ev |-> "log", arg |-> err, req |-> r, n |-> n + 1],
    [ev |-> "next", arg |-> Err(""), req |-> r, n |-> n + 1]>>

\* what errorLogger does, in order: the n+1st log call, then next(err)
errorLoggerSteps(err, r, n) ==
  <<[ev |-> "log", arg |-> err, req |-> r, n |-> n + 1],
    [ev |-> "next", arg |-> err, req |-> r, n |-> n + 1]>>

\* errorLogger(err, req, res, next): logger.error('Request error', ...); next(err)
ErrorLogger(r, m) ==
  /\ Running
  /\ r \in 1..Len(reqs)
  /\ reqs[r].phase = "pending"
  /\ Len(calls) < MaxCalls
  /\ LET err == Err(m)
     IN /\ SinksBecome(Log(Sinks, logger, "error", T("Request error"),
                           errorLoggerMeta(err, reqs[r]), now))
        /\ mw' = mw \o <<[ev |-> "errorLogger", arg |-> err, req |-> r, n |-> Len(calls)]>>
                    \o errorLoggerSteps(err, r, Len(calls))
  /\ UNCHANGED <<env, logger, now, proc, timers, disk, faults, reqs, config, modules, child>>

\* the environments of the HTTP model
HttpEnvs ==
  {e \in Envs : /\ e.ENABLE_CONSOLE_LOGS = Unset
                /\ \/ e.NODE_ENV = Unset /\ e.LOG_LEVEL = Unset
                   \/ e.NODE_ENV = "production" /\ e.LOG_LEVEL = "info"}

InitHttp == \E e \in HttpEnvs : InitWith(e)

NextHttp ==
  \/ \E url \in Urls : Arrive(url)
  \/ \E r \in 1..MaxReqs, status \in Statuses : SetStatus(r, status)
  \/ \E r \in 1..MaxReqs : Respond(r)
  \/ \E r \in 1..MaxReqs : Abort(r)
  \/ \E r \in 1..MaxReqs, m \in FaultMessages : ErrorLogger(r, m)

\* the HTTP layer alone: file writes and the clock are exercised by Spec
SpecHttp == InitHttp /\ [][NextHttp]_vars

\* every value of NODE_ENV, nothing else set
AccessEnvs == {e \in Envs : e.LOG_LEVEL = Unset /\ e.ENABLE_CONSOLE_LOGS = Unset}

InitAccess == \E e \in AccessEnvs : InitWith(e)

NextAccess ==
  \/ \E url \in Urls : Arrive(url)
  \/ \E r \in 1..MaxReqs, status \in Statuses : SetStatus(r, status)
  \/ \E r \in 1..MaxReqs : Respond(r)
  \/ \E r \in 1..MaxReqs : Abort(r)

\* the access logger under every environment
SpecAccess == InitAccess /\ [][NextAccess]_vars

\* development, production and test under every level of the level set, the
\* console as the environment has it or forced on
LevelEnvs ==
  [NODE_ENV : {Unset, "production", "test"},
   LOG_LEVEL : {Unset, "error", "warn", "info", "http", "debug"},
   ENABLE_CONSOLE_LOGS : {Unset, "true"}]

InitLevel == \E e \in LevelEnvs : InitWith(e)

NextLevel ==
  \/ \E url \in {UrlApiUsers, UrlApiHealth} : Arrive(url)
  \/ \E r \in 1..MaxReqs : Respond(r)
  \/ \E r \in 1..MaxReqs : Abort(r)
  \/ \E d \in Files : Flush(d)

\* access lines against every configured level
SpecLevel == InitLevel /\ [][NextLevel]_vars

\* request URLs with longer paths and query strings
UrlHealthcheckProxy ==
  UrlHealth \o <<"c", "h", "e", "c", "k", "-", "p", "r", "o", "x", "y">>
UrlMetricsExport == UrlMetrics \o <<"-", "e", "x", "p", "o", "r", "t">>
UrlFaviconQuery == UrlFavicon \o <<"?", "v", "=", "2">>
UrlUsersQueryHealth ==
  UrlApiUsers \o <<"?", "t", "a", "g", "=">> \o SubSeq(UrlHealth, 2, 7)
UrlUsersQueryPage == UrlApiUsers \o <<"?", "p", "a", "g", "e", "=", "2">>
UrlMetric == SubSeq(UrlMetrics, 1, 7)
SkipUrls ==
  {UrlHealthcheckProxy, UrlMetricsExport, UrlFaviconQuery, UrlUsersQueryHealth,
   UrlUsersQueryPage, UrlMetric, UrlApiHealth}

InitSkip == \E e \in HttpEnvs : InitWith(e)

NextSkip ==
  \/ \E url \in SkipUrls : Arrive(url)
  \/ \E r \in 1..MaxReqs, status \in Statuses : SetStatus(r, status)
  \/ \E r \in 1..MaxReqs : Respond(r)
  \/ \E r \in 1..MaxReqs : Abort(r)

\* the skip rule on whole request URLs
SpecSkip == InitSkip /\ [][NextSkip]_vars

-----------------------------------------------------------------------------
(* Log calls with metadata *)

\* bound: log calls with metadata per run
MaxMetaCalls == 1

\* metadata mappings handed to a log call
Metas ==
  {EmptyObj,
   [port |-> T("3000")],
   [port |-> T("3000"), userId |-> T("42")],
   [timestamp |-> T("yesterday")],
   [level |-> T("custom")],
   [message |-> T("extra")],
   [userId |-> T("42"), message |-> T("extra")]}

\* logger.<level>(msg, meta) with metadata
MetaLogCall(level, msg, meta) ==
  /\ Len(calls) < MaxMetaCalls
  /\ LogCall(level, msg, meta)

\* console pretty (development) and console JSON (production, force-enabled)
FormatEnvs ==
  {e \in Envs : /\ e.NODE_ENV \in {Unset, "production"}
                /\ e.LOG_LEVEL = "info"
                /\ e.ENABLE_CONSOLE_LOGS = "true"}

InitFormat == \E e \in FormatEnvs : InitWith(e)

NextFormat ==
  \/ \E level \in {"error", "info", "debug"}, meta \in Metas :
       MetaLogCall(level, T("Server started"), meta)
  \/ \E d \in Files : Flush(d)
  \/ Tick

\* records with metadata through the formats to the files
SpecFormat == InitFormat /\ [][NextFormat]_vars

-----------------------------------------------------------------------------
(* detailedHttpLogger *)

\* bound: log calls per run of the middleware model
MaxMwCalls == 3

\* the arguments res.end is called with: none, or chunk, encoding and callback
EndArgs ==
  {<<Undefined, Undefined, Undefined>>, <<T("body"), T("utf8"), T("callback")>>}

\* the metadata of the 'Incoming request' record
incomingMeta(req) ==
  [method |-> req.method, url |-> req.url, headers |-> req.headers,
   query |-> req.query, body |-> req.body, ip |-> req.ip]

\* the metadata of the 'Outgoing response' record
outgoingMeta(req, t) ==
  [method |-> req.method, url |-> req.url,
   statusCode |-> T(ToString(req.statusCode)),
   duration |-> <<ToString(t - req.startAt), "ms">>,
   headers |-> T("{}")]

\* http.ServerResponse.prototype.end applied to receiver this: the response is
\* finished and the receiver is returned
originalEnd(this, args) == [this |-> this, args |-> args, returns |-> <<"res", this>>]

\* what detailedHttpLogger does for request r, in order: the n+1st log call,
\* then next()
detailedSteps(r, n) ==
  <<[ev |-> "detailedHttpLogger", req |-> r, n |-> n],
    [ev |-> "log", req |-> r, n |-> n + 1],
    [ev |-> "next", req |-> r]>>

\* mutant: the override forwards the chunk only and returns nothing
endStepsDropArgs(r, this, args, n) ==
  LET res == originalEnd(this, <<args[1], Undefined, Undefined>>)
  IN <<[ev |-> "res.end", req |-> r, this |-> this, args |-> args, n |-> n],
       [ev |-> "log", req |-> r, n |-> n + 1],
       [ev |-> "originalEnd", req |-> r, this |-> res.this, args |-> res.args,
        returns |-> res.returns],
       [ev |-> "return", req |-> r, value |-> Undefined]>>

\* what the overridden res.end does, in order: the n+1st log call, then
\* originalEnd.call(this, chunk, encoding, callback), whose result it returns
endSteps(r, this, args, n) ==
  LET res == originalEnd(this, args)
  IN <<[ev |-> "res.end", req |-> r, this |-> this, args |-> args, n |-> n],
       [ev |-> "log", req |-> r, n |-> n + 1],
       [ev |-> "originalEnd", req |-> r, this |-> res.this, args |-> res.args,
        returns |-> res.returns],
       [ev |-> "return", req |-> r, value |-> res.returns]>>

\* detailedHttpLogger(req, res, next) for a request that arrives
DetailedHttpLogger(url) ==
  /\ Running
  /\ Len(reqs) < MaxReqs
  /\ Len(calls) < MaxMwCalls
  /\ LET req == NewRequest(url, now)
     IN /\ SinksBecome(Log(Sinks, logger, "debug", T("Incoming request"),
                           incomingMeta(req), now))
        /\ reqs' = Append(reqs, req)
        /\ mw' = mw \o detailedSteps(Len(reqs) + 1, Len(calls))
  /\ UNCHANGED <<env, logger, now, proc, timers, disk, faults, config, modules, child>>

\* a handler calls res.end(...) of request r, for the first time or again
ResEnd(r, args) ==
  /\ Running
  /\ r \in 1..Len(reqs)
  /\ Len(calls) < MaxMwCalls
  /\ SinksBecome(Log(Sinks, logger, "debug", T("Outgoing response"),
                     outgoingMeta(reqs[r], now), now))
  /\ mw' = mw \o endSteps(r, r, args, Len(calls))
  /\ reqs' = [reqs EXCEPT ![r].phase = "finished", ![r].headersSent = TRUE,
                          ![r].headersAt = IF reqs[r].headersSent THEN @ ELSE now]
  /\ UNCHANGED <<env, logger, now, proc, timers, disk, faults, config, modules, child>>

\* development at debug and at info
DetailedEnvs == {e \in Envs : e.NODE_ENV = Unset /\ e.ENABLE_CONSOLE_LOGS = Unset}

InitDetailed == \E e \in DetailedEnvs : InitWith(e)

NextDetailed ==
  \/ \E url \in Urls : DetailedHttpLogger(url)
  \/ \E r \in 1..MaxReqs, args \in EndArgs : ResEnd(r, args)
  \/ \E d \in Files : Flush(d)
  \/ Tick

\* requests in flight through detailedHttpLogger
SpecDetailed == InitDetailed /\ [][NextDetailed]_vars

-----------------------------------------------------------------------------
(* The stream adapter handed to morgan *)

\* lines written to logStream: morgan's lines end in a newline; others carry
\* whitespace in front, inside or alone
StreamLines ==
  {<<"GET", " ", "/", " ", "200", "\n">>,
   <<"GET", " ", "/", " ", "200">>,
   <<" ", "GET", " ", "/", "\n">>,
   <<"\t", "x", " ", "\r", "\n">>,
   <<" ", "\n">>,
   <<>>}

\* logStream.write(line), called by any holder of the stream
StreamWrite(line) ==
  /\ Running
  /\ Len(calls) < MaxCalls
  /\ SinksBecome(logStreamWrite(Sinks, logger, line, now))
  /\ mw' = Append(mw, [ev |-> "logStream.write", arg |-> line, n |-> Len(calls)])
  /\ UNCHANGED <<env, logger, now, proc, timers, disk, faults, reqs, config, modules,
                 child>>

\* development at debug and at info, production at its default level
StreamEnvs ==
  {e \in Envs : /\ e.ENABLE_CONSOLE_LOGS = Unset
                /\ \/ e.NODE_ENV = Unset
                   \/ e.NODE_ENV = "production" /\ e.LOG_LEVEL = Unset}

InitStream == \E e \in StreamEnvs : InitWith(e)

NextStream ==
  \/ \E line \in StreamLines : StreamWrite(line)
  \/ \E d \in Files : Flush(d)

SpecStream == InitStream /\ [][NextStream]_vars

-----------------------------------------------------------------------------
(* Child loggers *)

\* bound: child loggers created per run
MaxChildren == 1

\* contexts handed to createChildLogger
Ctxs ==
  {[requestId |-> T("abc-123")],
   [requestId |-> T("abc-123"), userId |-> T("456")],
   [requestId |-> T("abc-123"), level |-> T("custom")]}

\* metadata of the calls made on the parent and on a child
CallMetas == {EmptyObj, [port |-> T("3000")], [requestId |-> T("other")]}

\* mutant: the context is assigned last and overrides the record
childWriteCtxLast(ctx, info) == [LEVEL |-> info.LEVEL, f |-> Assign(info.f, ctx)]

\* the write of the object logger.child(ctx) returns:
\* logger.write(Object.assign({}, ctx, info))
childWrite(ctx, info) == [LEVEL |-> info.LEVEL, f |-> Assign(ctx, info.f)]

\* child.<level>(msg, meta): the inherited log method, then the child's write
ChildLog(s, lg, ctx, level, msg, meta, t) ==
  Write([s EXCEPT !.calls = Append(s.calls, [level |-> level, message |-> msg,
                                             meta |-> meta, ctx |-> ctx])],
        lg, childWrite(ctx, MakeInfo(level, msg, meta)), t)

\* createChildLogger(metadata): logger.child(metadata), a new handle whose
\* prototype is the logger
CreateChildLogger(ctx) ==
  /\ Running
  /\ Len(child) < MaxChildren
  /\ child' = Append(child, ctx)
  /\ UNCHANGED <<env, logger, now, proc, timers, queue, disk, console, calls, faults,
                 reqs, mw, config, modules>>

\* a log call on child handle c
ChildLogCall(c, level, msg, meta) ==
  /\ Running
  /\ c \in 1..Len(child)
  /\ Len(calls) < MaxCalls
  /\ SinksBecome(ChildLog(Sinks, logger, child[c], level, msg, meta, now))
  /\ UNCHANGED <<env, logger, now, proc, timers, disk, faults, reqs, mw, config,
                 modules, child>>

\* development with LOG_LEVEL=info
ChildEnvs ==
  {e \in Envs : e.NODE_ENV = Unset /\ e.LOG_LEVEL = "info" /\ e.ENABLE_CONSOLE_LOGS = Unset}

InitChild == \E e \in ChildEnvs : InitWith(e)

NextChild ==
  \/ \E ctx \in Ctxs : CreateChildLogger(ctx)
  \/ \E c \in 1..MaxChildren, level \in {"error", "debug"}, meta \in CallMetas :
       ChildLogCall(c, level, T("Processing payment"), meta)
  \/ \E level \in {"error", "debug"}, meta \in CallMetas :
       LogCall(level, T("Server started"), meta)
  \/ \E d \in Files : Flush(d)

\* the parent logger and its children side by side
SpecChild == InitChild /\ [][NextChild]_vars

-----------------------------------------------------------------------------
(* Observations used by the properties *)

\* the lines a file destination has taken: written, then queued
Received(d) == disk[d] \o queue[d]

\* the text without colour codes
StripColor(text) == SelectSeq(text, LAMBDA tok : tok \notin {"<color>", "</color>"})

\* the level a written line shows
LineLevel(line) ==
  IF line.enc = "pretty" THEN StripColor(SubSeq(line.head, 3, 5))
  ELSE Parse(line.members).level

\* a line written for a fault record of winston's handlers
IsFaultLine(line) ==
  LET o == Parse(line.members) IN IsTrue(o, "exception") \/ IsTrue(o, "rejection")

\* the level each line shows, Undefined for the fault records of the handlers
LevelsOf(lines) ==
  [i \in 1..Len(lines) |-> IF IsFaultLine(lines[i]) THEN Undefined ELSE LineLevel(lines[i])]

\* the number of entries of levels that are severity L
CountIn(levels, L) == Cardinality({i \in DOMAIN levels : levels[i] = T(L)})

\* the number of lines of ordinary log calls at severity L
CountLevel(lines, L) == CountIn(LevelsOf(lines), L)

\* the number of ordinary log calls made at severity L
CallsAt(L) == Cardinality({i \in 1..Len(calls) : calls[i].level = L})

\* the number of faults of a kind observed
FaultsOf(kind) == Cardinality({i \in 1..Len(faults) : faults[i].kind = kind})

\* severity sev is at or above the minimum level min (error < warn < info < http < debug)
AtOrAbove(sev, min) == min \in DOMAIN npmLevels /\ npmLevels[sev] <= npmLevels[min]

\* the configured minimum level
ConfiguredLevel == logConfigOf(config).level

-----------------------------------------------------------------------------
(* Properties *)

ExceptionLinesOf(m) ==
  {i \in 1..Len(disk["exceptions"]) :
     LET o == Parse(disk["exceptions"][i].members)
     IN /\ \E k \in 1..Len(o.message) : o.message[k] = m
        /\ "stack" \in DOMAIN o /\ o.stack # <<>>}

\* C5: once an uncaught exception with message M was observed and the process
\* has exited, the exceptions file holds exactly one record with M and a stack,
\* the exit status is not zero, and the exit came no earlier than the exit delay
\* after the fault.
C5_FaultRecordedThenExit ==
  \A i \in 1..Len(faults) :
    (faults[i].kind = "exception" /\ proc.state = "exited") =>
      /\ Cardinality(ExceptionLinesOf(faults[i].message)) = 1
      /\ proc.code # 0
      /\ now >= faults[i].at + ExitDelayMs

\* C6: when the process has exited on SIGTERM or SIGINT (status 0), nothing is
\* left queued: every accepted record, the shutdown record included, is on disk.
C6_SignalExitFlushed ==
  (proc.state = "exited" /\ proc.code = 0) => \A d \in Files : queue[d] = <<>>

C1_HealthSuppression ==
  \A r \in 1..Len(reqs) :
    (reqs[r].url = UrlHealth /\ reqs[r].phase = "finished") =>
      /\ reqs[r].statusCode = 200 => reqs[r].writes = 0
      /\ reqs[r].statusCode = 500 => reqs[r].writes = 1

\* C1 (amended): a completed request to /health produces no access-log emission
\* under status 200 and under status 500 alike (the skip list matches by prefix
\* before the status is looked at); a completed request to /api/health, which
\* contains 'health' outside the skip list, produces none with status 200 and
\* exactly one with status 500.
C1_HealthSuppressionAmended ==
  \A r \in 1..Len(reqs) :
    reqs[r].phase = "finished" =>
      /\ reqs[r].url = UrlHealth => reqs[r].writes = 0
      /\ reqs[r].url = UrlApiHealth =>
           reqs[r].writes = IF reqs[r].statusCode = 200 THEN 0 ELSE 1

\* C1 witness: /health completed with 500 and /api/health completed with 500
C1_Witness ==
  \E r, q \in 1..Len(reqs) :
    /\ reqs[r].url = UrlHealth /\ reqs[r].phase = "finished"
    /\ reqs[r].statusCode = 500 /\ reqs[r].writes = 0
    /\ reqs[q].url = UrlApiHealth /\ reqs[q].phase = "finished"
    /\ reqs[q].statusCode = 500 /\ reqs[q].writes = 1

\* C4 (as claimed): every request that is not suppressed is written to the log
\* stream exactly once and only once its response has completed; a request
\* whose response never completes is not written, and none is written twice.
C4_OnceAfterCompletion ==
  \A r \in 1..Len(reqs) :
    /\ reqs[r].writes <= 1
    /\ reqs[r].writes = 1 => reqs[r].phase = "finished"
    /\ (reqs[r].phase = "finished" /\ ~shouldSkipLog(reqs[r].url, reqs[r].statusCode))
         => reqs[r].writes = 1

\* C4 (amended): every request that is not suppressed is written to the log
\* stream exactly once, when its response finishes or its connection closes
\* before that (then without a status); a request still pending has not been
\* written, and none is written twice.
C4_OnceWhenFinishedOrClosed ==
  \A r \in 1..Len(reqs) :
    /\ reqs[r].writes <= 1
    /\ reqs[r].phase = "pending" => reqs[r].writes = 0
    /\ reqs[r].phase \in {"finished", "aborted"} =>
         reqs[r].writes = IF shouldSkipLog(reqs[r].url, reqs[r].statusCode) THEN 0 ELSE 1

\* C4 witness: one request was written on completion, another when its
\* connection closed before the response started
C4_Witness ==
  \E r, q \in 1..Len(reqs) :
    /\ reqs[r].phase = "finished" /\ reqs[r].writes = 1
    /\ reqs[q].phase = "aborted" /\ reqs[q].writes = 1 /\ ~reqs[q].headersSent

\* the log call errorLogger is to make for error err of request req
IsRequestErrorCall(c, err, req) ==
  /\ c.level = "error"
  /\ c.message = T("Request error")
  /\ c.meta["error.message"] = err.message
  /\ c.meta["error.stack"] = err.stack
  /\ c.meta["error.name"] = err.name
  /\ c.meta["request.method"] = req.method
  /\ c.meta["request.url"] = req.url
  /\ c.meta["request.headers"] = req.headers
  /\ c.meta["request.query"] = req.query
  /\ c.meta["request.body"] = req.body

\* C8: every invocation of errorLogger with an error makes one error-severity
\* log call carrying the error's message, stack and name and the request's
\* method, url, headers, query and body, then calls next once with that same
\* error and nothing else; the step leaves the request's response untouched.
C8_ErrorLoggerForwards ==
  /\ [](\A i \in 1..Len(mw) :
          mw[i].ev = "errorLogger" =>
            /\ i + 2 <= Len(mw)
            /\ mw[i+1].ev = "log" /\ mw[i+1].n = mw[i].n + 1
            /\ mw[i+1].n <= Len(calls)
            /\ IsRequestErrorCall(calls[mw[i+1].n], mw[i].arg, reqs[mw[i].req])
            /\ mw[i+2].ev = "next" /\ mw[i+2].arg = mw[i].arg
            /\ (i + 3 <= Len(mw) => mw[i+3].ev = "errorLogger"))
  /\ [][mw' # mw => (reqs' = reqs /\ Len(calls') = Len(calls) + 1)]_vars

\* C8 witness: errorLogger has run for a request and logged to the error file
C8_Witness ==
  \E i \in 1..Len(mw) :
    /\ mw[i].ev = "errorLogger"
    /\ Len(Received("error")) > 0

\* the log calls whose record file destination d takes, in call order
AcceptedCalls(d) ==
  SelectSeq(calls, LAMBDA c :
    /\ AtOrAbove(c.level, ConfiguredLevel)
    /\ d = "error" => c.level = "error")

\* C10 (as claimed): every line of the combined and error files parses as an
\* object holding the original message, the original level and every metadata
\* key with its value, also for keys named timestamp, level or message,
\* whatever the console's encoding.
C10_FileRoundTrip ==
  \A d \in {"combined", "error"} :
    LET cs == AcceptedCalls(d)
    IN /\ Len(Received(d)) = Len(cs)
       /\ \A i \in 1..Len(cs) :
            LET line == Received(d)[i]
                o == Parse(line.members)
            IN /\ line.enc = "json"
               /\ o.message = cs[i].message
               /\ o.level = T(cs[i].level)
               /\ \A k \in DOMAIN cs[i].meta : k \in DOMAIN o /\ o[k] = cs[i].meta[k]

\* C10 (amended): every line of the combined and error files parses as an
\* object holding the original level and every metadata key other than
\* timestamp, level and message with its value, whatever the console's
\* encoding; it holds the original message unless the metadata has a message
\* key, whose text is then appended to the message; a metadata key named level
\* or timestamp is replaced by the record's own level and timestamp.
C10_FileRoundTripAmended ==
  \A d \in {"combined", "error"} :
    LET cs == AcceptedCalls(d)
    IN /\ Len(Received(d)) = Len(cs)
       /\ \A i \in 1..Len(cs) :
            LET line == Received(d)[i]
                o == Parse(line.members)
                meta == cs[i].meta
            IN /\ line.enc = "json"
               /\ o.level = T(cs[i].level)
               /\ o.message = IF "message" \in DOMAIN meta
                              THEN cs[i].message \o T(" ") \o meta.message
                              ELSE cs[i].message
               /\ \E t \in 0..now : o.timestamp = FormatTime(t)
               /\ \A k \in (DOMAIN meta) \ {"timestamp", "level", "message"} :
                    k \in DOMAIN o /\ o[k] = meta[k]

\* C10 witness: the console wrote a pretty block while the combined file holds
\* the JSON line of a call whose metadata has a userId and a message
C10_Witness ==
  /\ Len(console) > 0 /\ console[1].enc = "pretty"
  /\ Len(disk["combined"]) > 0
  /\ Len(calls) > 0 /\ DOMAIN calls[1].meta = {"userId", "message"}

\* whether a log call was made through a child logger
ViaChild(c) == "ctx" \in DOMAIN c

\* C11 (as claimed): every line of a record emitted through a child holds every
\* field of its context, key and value; every line of a record emitted through
\* the parent holds no key but its own; the parent logger is as it was built.
C11_ChildAddsContext ==
  /\ logger = createLogger(config, env)
  /\ \A d \in {"combined", "error"} :
       LET cs == AcceptedCalls(d)
           ls == Received(d)
       IN /\ Len(ls) = Len(cs)
          /\ \A j \in 1..Len(ls) :
               LET o == Parse(ls[j].members)
               IN IF ViaChild(cs[j])
                  THEN \A k \in DOMAIN cs[j].ctx : k \in DOMAIN o /\ o[k] = cs[j].ctx[k]
                  ELSE DOMAIN o = {"level", "message", "timestamp"} \cup DOMAIN cs[j].meta

\* C11 (amended): a line of a child's record holds every key of the context,
\* with the context's value unless the call's own metadata sets the key or the
\* key is level, message or timestamp, where the record's own value stands; a
\* line of a parent's record holds no key but its own; the parent logger is as
\* it was built.
C11_ChildAddsContextAmended ==
  /\ logger = createLogger(config, env)
  /\ \A d \in {"combined", "error"} :
       LET cs == AcceptedCalls(d)
           ls == Received(d)
       IN /\ Len(ls) = Len(cs)
          /\ \A j \in 1..Len(ls) :
               LET o == Parse(ls[j].members)
                   c == cs[j]
               IN IF ViaChild(c)
                  THEN /\ DOMAIN o = {"level", "message", "timestamp"}
                                       \cup DOMAIN c.meta \cup DOMAIN c.ctx
                       /\ o.level = T(c.level)
                       /\ o.message = c.message
                       /\ \A k \in DOMAIN c.ctx \ {"level", "message", "timestamp"} :
                            o[k] = IF k \in DOMAIN c.meta THEN c.meta[k] ELSE c.ctx[k]
                  ELSE DOMAIN o = {"level", "message", "timestamp"} \cup DOMAIN c.meta

\* C11 witness: a child was created and logged with metadata that sets a key of
\* its context, the parent logged after it, and the combined file took both
C11_Witness ==
  /\ Len(child) = 1
  /\ Len(calls) = 2
  /\ ViaChild(calls[1]) /\ ~ViaChild(calls[2])
  /\ DOMAIN calls[1].meta \cap DOMAIN calls[1].ctx # {}
  /\ Len(disk["combined"]) = 2

\* a text made of whitespace only
AllSpace(text) == \A i \in 1..Len(text) : IsSpace(text[i])

\* text m is the text line without its trailing whitespace
IsEndTrimOf(m, line) ==
  /\ Len(m) <= Len(line)
  /\ m = SubSeq(line, 1, Len(m))
  /\ AllSpace(SubSeq(line, Len(m) + 1, Len(line)))
  /\ m # <<>> => ~IsSpace(m[Len(m)])

\* text m is the text line without its leading and its trailing whitespace
IsTrimOf(m, line) ==
  \E a \in 0..Len(line) :
    /\ AllSpace(SubSeq(line, 1, a))
    /\ IsEndTrimOf(m, SubSeq(line, a + 1, Len(line)))
    /\ m # <<>> => ~IsSpace(m[1])

\* C12 (as claimed): every logStream.write(line) makes exactly one log call, at
\* http severity, whose message is line without its trailing whitespace and
\* otherwise unchanged.
C12_StreamWriteTrimsEnd ==
  /\ Len(calls) = Len(mw)
  /\ \A i \in 1..Len(mw) :
       LET c == calls[mw[i].n + 1]
       IN /\ mw[i].n = i - 1
          /\ c.level = "http"
          /\ c.meta = EmptyObj
          /\ IsEndTrimOf(c.message, mw[i].arg)

\* C12 (amended): every logStream.write(line) makes exactly one log call, at
\* http severity, whose message is line without its leading and its trailing
\* whitespace and otherwise unchanged.
C12_StreamWriteTrims ==
  /\ Len(calls) = Len(mw)
  /\ \A i \in 1..Len(mw) :
       LET c == calls[mw[i].n + 1]
       IN /\ mw[i].n = i - 1
          /\ c.level = "http"
          /\ c.meta = EmptyObj
          /\ IsTrimOf(c.message, mw[i].arg)

\* C12 witness: a line with whitespace at both ends was written and its record
\* is in the combined file
C12_Witness ==
  /\ Len(mw) > 0
  /\ mw[1].arg = <<" ", "GET", " ", "/", "\n">>
  /\ calls[1].message = <<"GET", " ", "/">>
  /\ Len(disk["combined"]) > 0

\* the number of times next was called for request r
NextCalls(r) == Cardinality({i \in 1..Len(mw) : mw[i].ev = "next" /\ mw[i].req = r})

\* C17: for each request handled by detailedHttpLogger one 'Incoming request'
\* debug call is made and then next is called, exactly once per request; each
\* call of res.end makes one 'Outgoing response' debug call, then invokes the
\* original end with the same receiver and arguments and returns its result.
C17_DetailedPreservesEnd ==
  /\ \A r \in 1..Len(reqs) : NextCalls(r) = 1
  /\ \A i \in 1..Len(mw) :
       /\ mw[i].ev = "detailedHttpLogger" =>
            /\ i + 2 <= Len(mw)
            /\ mw[i+1].ev = "log" /\ mw[i+1].n = mw[i].n + 1
            /\ LET c == calls[mw[i+1].n]
                   req == reqs[mw[i].req]
               IN /\ c.level = "debug"
                  /\ c.message = T("Incoming request")
                  /\ c.meta.method = req.method /\ c.meta.url = req.url
                  /\ c.meta.headers = req.headers /\ c.meta.query = req.query
                  /\ c.meta.body = req.body /\ c.meta.ip = req.ip
            /\ mw[i+2].ev = "next" /\ mw[i+2].req = mw[i].req
       /\ mw[i].ev = "res.end" =>
            /\ i + 3 <= Len(mw)
            /\ mw[i+1].ev = "log" /\ mw[i+1].n = mw[i].n + 1
            /\ LET c == calls[mw[i+1].n]
                   req == reqs[mw[i].req]
               IN /\ c.level = "debug"
                  /\ c.message = T("Outgoing response")
                  /\ c.meta.method = req.method /\ c.meta.url = req.url
                  /\ c.meta.statusCode = T(ToString(req.statusCode))
            /\ mw[i+2].ev = "originalEnd"
            /\ mw[i+2].this = mw[i].this /\ mw[i+2].args = mw[i].args
            /\ mw[i+3].ev = "return" /\ mw[i+3].value = mw[i+2].returns
  /\ Len(calls) = Cardinality({i \in 1..Len(mw) : mw[i].ev = "log"})

\* C17 witness: a request came in, res.end was called with chunk, encoding and
\* callback, and both debug records are in the combined file
C17_Witness ==
  /\ Len(reqs) = 1
  /\ \E i \in 1..Len(mw) : mw[i].ev = "res.end" /\ mw[i].args[3] = T("callback")
  /\ Len(disk["combined"]) = 2

\* line is the complete record of log call c and holds nothing else (a value
\* that is undefined has no member in JSON)
IsLineOf(line, c) ==
  LET o == Parse(line.members)
      defined == {k \in DOMAIN c.meta : c.meta[k] # Undefined}
  IN /\ line.enc = "json"
     /\ DOMAIN o = {"level", "message", "timestamp"} \cup defined
     /\ o.level = T(c.level)
     /\ o.message = c.message
     /\ \A k \in defined : o[k] = c.meta[k]
     /\ Len(line.members) = Cardinality(DOMAIN o)

C14_WriteFailureSwallowed ==
  (\E i \in 1..Len(mw) : mw[i].ev = "writeError") =>
    /\ faults = <<>>
    /\ timers = {}
    /\ proc.state = "running"

\* the tokens that open the members of the JSON access line, in order
AccessKeys ==
  <<"{\"method\":\"", "\",\"url\":\"", "\",\"status\":\"", "\",\"responseTime\":\"",
    "\",\"contentLength\":\"", "\",\"ip\":\"", "\",\"userAgent\":\"",
    "\",\"requestId\":\"", "\",\"userId\":\"", "\",\"timestamp\":\"", "\"}">>

\* the positions in text of the tokens that open or close a member
KeyPositions(text) ==
  SelectSeq([i \in 1..Len(text) |-> i],
            LAMBDA i : \E k \in 1..Len(AccessKeys) : text[i] = AccessKeys[k])

\* text is one JSON object with exactly the members of AccessKeys, in order
IsJsonAccessLine(text) ==
  LET ps == KeyPositions(text)
  IN /\ Len(ps) = Len(AccessKeys)
     /\ \A k \in 1..Len(ps) : text[ps[k]] = AccessKeys[k]
     /\ ps[1] = 1 /\ ps[Len(ps)] = Len(text)

\* the value of the k-th member of a JSON access line
AccessValue(text, k) ==
  LET ps == KeyPositions(text) IN SubSeq(text, ps[k] + 1, ps[k+1] - 1)

\* the text of a status, a response time or a header that may be missing
OrDash(present, v) == IF present THEN v ELSE T("-")

\* text is the JSON access line of request q
IsJsonLineOf(text, q) ==
  /\ IsJsonAccessLine(text)
  /\ AccessValue(text, 1) = q.method
  /\ AccessValue(text, 2) = q.url
  /\ AccessValue(text, 3) = OrDash(q.headersSent, T(ToString(q.statusCode)))
  /\ LET rt == AccessValue(text, 4) IN Len(rt) >= 2 /\ rt[Len(rt)] = " ms"
  /\ AccessValue(text, 5) = OrDash(q.contentLength # Undefined, q.contentLength)
  /\ AccessValue(text, 6) = q.ip
  /\ AccessValue(text, 7) = q.userAgent
  /\ AccessValue(text, 8) = T("-")
  /\ AccessValue(text, 9) = T("-")
  /\ AccessValue(text, 10) # <<>>

\* text is the space-delimited access line of request q
IsPlainLineOf(text, q) ==
  \E rt \in {T("-"), <<ToString(q.headersAt - q.startAt), ".000">>} :
    /\ q.headersSent <=> rt # T("-")
    /\ text = q.method \o <<" ">> \o q.url \o <<" ">>
                \o OrDash(q.headersSent, T(ToString(q.statusCode))) \o <<" ">>
                \o rt \o <<" ms - ">>
                \o OrDash(q.contentLength # Undefined, q.contentLength)
                \o <<" ">> \o q.ip

\* C15: the access-log line of every logged request is the JSON object with
\* method, url, status, responseTime (with ms), contentLength, ip, userAgent,
\* requestId, userId and timestamp when NODE_ENV is production, and the
\* space-delimited line of method, url, status, response time with ms, content
\* length and client address under every other NODE_ENV.
C15_FormatByProductionFlag ==
  /\ Len(calls) = Cardinality({r \in 1..Len(reqs) : reqs[r].writes = 1})
  /\ \A i \in 1..Len(calls) :
       /\ calls[i].level = "http"
       /\ \E r \in 1..Len(reqs) :
            /\ reqs[r].writes = 1
            /\ IF env.NODE_ENV = "production"
               THEN IsJsonLineOf(calls[i].message, reqs[r])
               ELSE IsPlainLineOf(calls[i].message, reqs[r])

\* C15 witness: in production a request was answered with status 500 and its
\* JSON line was emitted
C15_Witness ==
  /\ env.NODE_ENV = "production"
  /\ \E r \in 1..Len(reqs) :
       reqs[r].phase = "finished" /\ reqs[r].statusCode = 500 /\ reqs[r].writes = 1
  /\ Len(calls) = 1
  /\ IsJsonAccessLine(calls[1].message)

\* the settings of file transport name
FileSettings(name) ==
  LET tr == TransportOf(logger, name)
  IN [directory |-> tr.dirname, maxSize |-> tr.maxSize, maxFiles |-> tr.maxFiles]

\* C16: without a logging section in the configuration the logger is built from
\* {level info, format json, directory logs, maxSize 20m, maxFiles 14d}; with a
\* logging section its level, format, directory, maxSize and maxFiles are those
\* of the section; the lines written follow that level and that format.
C16_DefaultLogConfig ==
  LET lc == IF "logging" \in DOMAIN config THEN config.logging
            ELSE [level |-> "info", format |-> "json", directory |-> "logs",
                  maxSize |-> "20m", maxFiles |-> "14d"]
      settings == [directory |-> lc.directory, maxSize |-> lc.maxSize,
                   maxFiles |-> lc.maxFiles]
  IN /\ logger.level = lc.level
     /\ TransportOf(logger, "combined").level = lc.level
     /\ TransportOf(logger, "error").level = "error"
     /\ FileSettings("combined") = settings
     /\ FileSettings("error") = settings
     /\ LET tr == TransportOf(logger, "console")
        IN /\ tr.level = lc.level
           /\ tr.format = "pretty" <=> lc.format = "pretty"
     /\ \A i \in 1..Len(console) : console[i].enc = "pretty" <=> lc.format = "pretty"
     /\ \A L \in Severities :
          CountLevel(Received("combined"), L) =
            IF lc.level \in DOMAIN npmLevels /\ npmLevels[L] <= npmLevels[lc.level]
            THEN CallsAt(L) ELSE 0

\* C16 witness: the configuration has no logging section, an info and a debug
\* call were made, and the info line alone was written, as JSON
C16_Witness ==
  /\ "logging" \notin DOMAIN config
  /\ CallsAt("info") = 1 /\ CallsAt("debug") = 1
  /\ Len(disk["combined"]) = 1
  /\ Len(console) = 1 /\ console[1].enc = "json"

\* the file NODE_ENV names, letter case aside; development for any other value
SelectedFile ==
  CASE env.NODE_ENV \in {"production", "Production", "PRODUCTION"} -> "./production.js"
    [] env.NODE_ENV \in {"staging", "Staging", "STAGING"} -> "./staging.js"
    [] env.NODE_ENV \in {"test", "Test", "TEST"} -> "./test.js"
    [] OTHER -> "./development.js"

\* the exported configuration is the one of this file
IsConfigOf(file) ==
  /\ config # Throws
  /\ config.server.env =
       (CASE file = "./production.js" -> "production"
          [] file = "./staging.js" -> "staging"
          [] file = "./test.js" -> "test"
          [] OTHER -> "development")

\* C18 (as claimed): the exported configuration is the one of the file NODE_ENV
\* selects, letter case aside, development for any other or unset value; when
\* that file cannot be loaded it is the development configuration and loading
\* does not fail; the exported configuration is never reassigned.
C18_LoadConfigFallsBack ==
  /\ [](/\ SelectedFile \in modules => IsConfigOf(SelectedFile)
        /\ SelectedFile \notin modules =>
             IsConfigOf("./development.js") /\ logger # NoLogger)
  /\ [][config' = config]_vars

\* C18 (amended): as claimed, except that when the selected file cannot be loaded
\* and development.js cannot be loaded either (which includes the case that
\* development.js is the selected file), loadConfig throws and the process ends
\* at startup without a logger.
C18_LoadConfigFallsBackAmended ==
  /\ [](/\ SelectedFile \in modules => IsConfigOf(SelectedFile)
        /\ (SelectedFile \notin modules /\ "./development.js" \in modules) =>
             IsConfigOf("./development.js") /\ logger # NoLogger
        /\ (SelectedFile \notin modules /\ "./development.js" \notin modules) =>
             /\ config = Throws /\ logger = NoLogger
             /\ proc = [state |-> "exited", code |-> 1])
  /\ [][config' = config]_vars

\* C18 witness: NODE_ENV is Staging, staging.js cannot be loaded, and the logger
\* built from the development configuration has written a debug line
C18_Witness ==
  /\ env.NODE_ENV = "Staging"
  /\ "./staging.js" \notin modules
  /\ IsConfigOf("./development.js")
  /\ CallsAt("debug") = 1
  /\ Len(disk["combined"]) = 1

\* C19: whichever configuration the loader selects (LOG_LEVEL unset), the level
\* handed to the logger is one of error, warn, info, http, debug.
C19_LevelInLevelSet ==
  config # Throws =>
    /\ logConfigOf(config).level \in {"error", "warn", "info", "http", "debug"}
    /\ logger.level \in {"error", "warn", "info", "http", "debug"}

\* C20: for every value of NODE_ENV (console flag unset) the loader has selected
\* the production configuration if and only if the logger has no console
\* destination, and if and only if the access lines are JSON objects.
C20_ProductionModeAgrees ==
  LET loaderProduction == IsConfigOf("./production.js")
      loggerProduction == ~HasTransport(logger, "console")
  IN /\ loaderProduction <=> loggerProduction
     /\ \A i \in 1..Len(calls) :
          IsJsonAccessLine(calls[i].message) <=> loaderProduction

ExceptionSeen == FaultsOf("exception") > 0

\* when the uncaughtException hook first ran
FirstExceptionAt ==
  LET ats == {faults[i].at : i \in {j \in 1..Len(faults) : faults[j].kind = "exception"}}
  IN CHOOSE a \in ats : \A b \in ats : a <= b

\* a SIGTERM or SIGINT handler has run
SignalHandled ==
  \E i \in 1..Len(calls) :
    /\ calls[i].level = "info"
    /\ Len(calls[i].message) = 2
    /\ calls[i].message[1] \in {"SIGTERM", "SIGINT"}

\* C22: once the uncaughtException hook has run the process exits, no later than
\* the exit delay after it, with status 1, or with status 0 and at once when a
\* SIGTERM or SIGINT is handled first; without an uncaught exception and without
\* a signal the process keeps running, whatever is rejected.
C22_ExitAfterException ==
  /\ [](/\ ExceptionSeen => now <= FirstExceptionAt + ExitDelayMs
        /\ (ExceptionSeen /\ proc.state = "exited") =>
             proc.code = IF SignalHandled THEN 0 ELSE 1
        /\ SignalHandled => proc.state # "running" /\ proc.code = 0
        /\ (~ExceptionSeen /\ ~SignalHandled) => proc.state = "running")
  /\ [][proc.state = "exiting" =>
          (now' = now /\ proc'.state \in {"exiting", "exited"} /\ proc'.code = 0)]_vars
  /\ (ExceptionSeen ~> proc.state = "exited")

\* C22 witness: an uncaught exception was raised half a second after the start,
\* no signal came, and the timer ended the process with status 1 a full delay
\* later
C22_Witness ==
  /\ ExceptionSeen
  /\ FirstExceptionAt = TickMs
  /\ ~SignalHandled
  /\ proc = [state |-> "exited", code |-> 1]
  /\ now = TickMs + ExitDelayMs

\* the part of a URL before its query string
PathOf(url) ==
  IF \E i \in 1..Len(url) : url[i] = "?"
  THEN SubSeq(url, 1, (CHOOSE i \in 1..Len(url) :
                         url[i] = "?" /\ \A j \in 1..(i-1) : url[j] # "?") - 1)
  ELSE url

\* the word health, letter by letter
WordHealth == <<"h", "e", "a", "l", "t", "h">>

\* C23: a request whose URL starts with /health, /metrics or /favicon.ico, longer
\* paths included, is never logged; a request whose URL, query string included,
\* contains health is not logged when its status is 200; every other request
\* that finished or was closed is logged once.
C23_SkipOnWholeUrl ==
  \A r \in 1..Len(reqs) :
    LET q == reqs[r]
        listed == q.url \in {UrlHealthcheckProxy, UrlMetricsExport, UrlFaviconQuery}
        hasHealth == q.url \in {UrlHealthcheckProxy, UrlUsersQueryHealth, UrlApiHealth}
    IN /\ listed => q.writes = 0
       /\ (hasHealth /\ q.statusCode = 200) => q.writes = 0
       /\ (q.phase # "pending" /\ ~listed /\ ~(hasHealth /\ q.statusCode = 200)) =>
            q.writes = 1

\* C23 witness: a request whose path holds no health but whose query string does
\* was answered with status 200 and not logged, and /metrics-export was answered
\* with status 500 and not logged either
C23_Witness ==
  /\ Len(reqs) = 2
  /\ reqs[1].url = UrlUsersQueryHealth /\ ~Includes(PathOf(reqs[1].url), WordHealth)
  /\ reqs[1].phase = "finished" /\ reqs[1].statusCode = 200 /\ reqs[1].writes = 0
  /\ reqs[2].url = UrlMetricsExport
  /\ reqs[2].phase = "finished" /\ reqs[2].statusCode = 500 /\ reqs[2].writes = 0
====
